---- MODULE Spec2Model ----
(***************************************************************************)
(* A model of @veccompress/core: the VectorCompressor (lattice and         *)
(* boundary-aware quantization, the analysis pipeline), the quality        *)
(* metrics, the regime classifier and the safeCompress helper.             *)
(*                                                                         *)
(* Numbers.  A JavaScript number is modelled as an extended rational       *)
(* [n |-> numerator, d |-> denominator] in lowest terms with d >= 0:       *)
(* d = 0 gives the IEEE special values (1/0 = Infinity, -1/0 = -Infinity,  *)
(* 0/0 = NaN).  Arithmetic is exact (no rounding error, no signed zero).   *)
(* Math.sqrt is exact on squares of rationals and otherwise rounded down   *)
(* to a multiple of 1/SqrtPrec; wherever the code only compares distances  *)
(* the model compares their squares, which orders them the same way.       *)
(*                                                                         *)
(* Indices.  Vector sets are TLA+ sequences (1-based); the indices that    *)
(* the code stores and returns (findKNN's result, the sampled query        *)
(* indices) are kept 0-based as in the source.                             *)
(***************************************************************************)
EXTENDS Integers, Sequences, FiniteSets, TLC

VARIABLES
    vectors,    \* the caller's vector set (the argument of the calls)
    options,    \* VectorCompressor.options of the instance under test
    ret         \* what the last call returned, tagged with the call

vars == <<vectors, options, ret>>

-----------------------------------------------------------------------------
(* Bounds of the model *)

\* precision of an inexact Math.sqrt: results are multiples of 1/SqrtPrec
SqrtPrec == 100

\* the largest vector set handed to a VectorCompressor
MaxN == 3

\* safeCompress is called with maxAttempts in 0..MaxAttempts
MaxAttempts == 3

\* the quantizers alone are applied to coordinates k/4, |k| <= QMaxCoord
QMaxCoord == 2

\* detectRegime alone is applied to the collapse indices k/100, k <= MaxIndex
MaxIndex == 100

\* the sampling loop alone is run for original sets of 1..MaxSampleN vectors
MaxSampleN == 450

\* findKNN alone is called with k in 0..MaxK
MaxK == 4

-----------------------------------------------------------------------------
(* JavaScript numbers as extended rationals *)

Abs(x) == IF x < 0 THEN -x ELSE x

Sign(x) == IF x > 0 THEN 1 ELSE IF x < 0 THEN -1 ELSE 0

RECURSIVE GCD(_, _)
GCD(a, b) == IF b = 0 THEN a ELSE GCD(b, a % b)

Norm(n, d) ==
    IF d = 0 THEN [n |-> Sign(n), d |-> 0]
    ELSE LET g == GCD(Abs(n), Abs(d))
         IN  [n |-> Sign(d) * (n \div g), d |-> Abs(d) \div g]

Num(i) == [n |-> i, d |-> 1]

Frac(a, b) == Norm(a, b)

NaN == [n |-> 0, d |-> 0]

Infinity == [n |-> 1, d |-> 0]

NegInfinity == [n |-> -1, d |-> 0]

IsNaN(a) == a.n = 0 /\ a.d = 0

Neg(a) == [n |-> -a.n, d |-> a.d]

Add(a, b) ==
    IF a.d = 0 /\ b.d = 0 THEN (IF a.n = b.n THEN a ELSE NaN)
    ELSE IF a.d = 0 THEN a
    ELSE IF b.d = 0 THEN b
    ELSE LET g == GCD(a.d, b.d)
         IN  Norm(a.n * (b.d \div g) + b.n * (a.d \div g), (a.d \div g) * b.d)

Sub(a, b) == Add(a, Neg(b))

Mul(a, b) ==
    IF a.d = 0 \/ b.d = 0 THEN Norm(a.n * b.n, 0)
    ELSE LET g1 == GCD(Abs(a.n), b.d)
             g2 == GCD(Abs(b.n), a.d)
         IN  Norm((a.n \div g1) * (b.n \div g2), (a.d \div g2) * (b.d \div g1))

Inv(a) == Norm(a.d, a.n)

Div(a, b) == Mul(a, Inv(b))

Lt(a, b) ==
    IF IsNaN(a) \/ IsNaN(b) THEN FALSE
    ELSE IF a.d = 0 /\ b.d = 0 THEN a.n < b.n
    ELSE LET g == GCD(a.d, b.d)
         IN  a.n * (b.d \div g) < b.n * (a.d \div g)

Gt(a, b) == Lt(b, a)

Le(a, b) == ~IsNaN(a) /\ ~IsNaN(b) /\ ~Lt(b, a)

Ge(a, b) == Le(b, a)

\* Math.round: to the nearest integer, a tie towards +Infinity
MathRound(a) == IF a.d = 0 THEN a ELSE Num((2 * a.n + a.d) \div (2 * a.d))

MathFloor(a) == IF a.d = 0 THEN a ELSE Num(a.n \div a.d)

MathMin(a, b) == IF IsNaN(a) \/ IsNaN(b) THEN NaN ELSE IF Lt(b, a) THEN b ELSE a

MathMax(a, b) == IF IsNaN(a) \/ IsNaN(b) THEN NaN ELSE IF Lt(a, b) THEN b ELSE a

Square(a) == Mul(a, a)

RECURSIVE ISqrtIn(_, _, _)
ISqrtIn(m, lo, hi) ==
    IF lo >= hi THEN lo
    ELSE LET mid == (lo + hi + 1) \div 2
         IN  IF mid * mid <= m THEN ISqrtIn(m, mid, hi) ELSE ISqrtIn(m, lo, mid - 1)

\* floor of the square root of a natural number below 2^31 (46340^2 < 2^31)
ISqrt(m) == ISqrtIn(m, 0, IF m < 46340 THEN m ELSE 46340)

\* Math.sqrt: exact on the square of a rational, else rounded down to 1/SqrtPrec
MathSqrt(a) ==
    IF IsNaN(a) \/ a.n < 0 THEN NaN
    ELSE IF a.d = 0 THEN Infinity
    ELSE LET rn == ISqrt(a.n)
             rd == ISqrt(a.d)
         IN  IF rn * rn = a.n /\ rd * rd = a.d THEN Norm(rn, rd)
             ELSE Norm(ISqrt((a.n * SqrtPrec * SqrtPrec) \div a.d), SqrtPrec)

\* the sum of a sequence of numbers, left to right from 0
RECURSIVE SumSeq(_)
SumSeq(s) == IF s = <<>> THEN Num(0)
             ELSE Add(SumSeq(SubSeq(s, 1, Len(s) - 1)), s[Len(s)])

\* TLC applies a function [x \in S |-> e] by evaluating e again at every
\* application; these build the array (the table) once
Array(s) == s \o <<>>

Table(f) == f @@ <<>>

\* an optional value (JavaScript's undefined): <<>> or <<x>>
None == <<>>

Some(x) == <<x>>

\* arr[i] for a 0-based index i: undefined outside the array
At(arr, i) == IF i >= 0 /\ i < Len(arr) THEN Some(arr[i + 1]) ELSE None

Min2(a, b) == IF a < b THEN a ELSE b

Max2(a, b) == IF a > b THEN a ELSE b

-----------------------------------------------------------------------------
(* utils.ts *)

\* normalizeVectors: each vector divided by its Euclidean norm
normalizeVector(v) ==
    LET magSq == SumSeq(Array([i \in 1..Len(v) |-> Mul(v[i], v[i])]))
        mag == MathSqrt(magSq)
    IN  IF mag = Num(0) THEN Array([i \in 1..Len(v) |-> Num(0)])
        ELSE Array([i \in 1..Len(v) |-> Div(v[i], mag)])

normalizeVectors(vs) == Array([j \in 1..Len(vs) |-> normalizeVector(vs[j])])

\* the square of euclideanDistance(a, b), a and b optional vectors: 0 when
\* either is undefined, else summed over the first min(|a|, |b|) coordinates
euclideanDistanceSq(a, b) ==
    IF a = None \/ b = None THEN Num(0)
    ELSE LET len == Min2(Len(a[1]), Len(b[1]))
         IN  SumSeq(Array([i \in 1..len |-> Square(Sub(a[1][i], b[1][i]))]))

euclideanDistance(a, b) == MathSqrt(euclideanDistanceSq(a, b))

\* Math.sqrt(x) > t, decided on the square x (x >= 0)
SqrtGt(x, t) ==
    IF IsNaN(x) \/ IsNaN(t) THEN FALSE
    ELSE IF Lt(t, Num(0)) THEN TRUE
    ELSE Gt(x, Square(t))

\* Math.round(val * 1000000) / 1000000
roundTo6(val) == Div(MathRound(Mul(val, Num(1000000))), Num(1000000))

\* a count of all the vectors, duplicates included
countUniqueVectorsAll(vs) == Max2(1, Len(vs))

\* countUniqueVectors: the distinct vectors after rounding, at least 1
countUniqueVectors(vs) ==
    LET seen == {Array([i \in 1..Len(vs[j]) |-> roundTo6(vs[j][i])]) : j \in 1..Len(vs)}
    IN  Max2(1, Cardinality(seen))

\* a neighbour search that leaves the query's own entries out
findKNNExcludingSelf(query, haystack, k) ==
    LET n == Len(haystack)
        others == {i \in 0..(n - 1) : haystack[i + 1] # query}
        dist == Table([i \in others |->
                         euclideanDistanceSq(Some(query), At(haystack, i))])
        before(i, j) == Lt(dist[i], dist[j]) \/ (~Lt(dist[j], dist[i]) /\ i < j)
        sorted == Array([r \in 1..Cardinality(others) |->
                     CHOOSE i \in others :
                        Cardinality({j \in others : before(j, i)}) = r - 1])
    IN  SubSeq(sorted, 1, Min2(k, Cardinality(others)))

\* findKNN: the 0-based indices of the k nearest vectors of haystack, by
\* ascending distance; the sort is stable, so ties keep the index order
findKNN(query, haystack, k) ==
    LET n == Len(haystack)
        dist == Table([i \in 0..(n - 1) |->
                         euclideanDistanceSq(Some(query), At(haystack, i))])
        before(i, j) == Lt(dist[i], dist[j]) \/ (~Lt(dist[j], dist[i]) /\ i < j)
        sorted == Array([r \in 1..n |->
                     CHOOSE i \in 0..(n - 1) :
                        Cardinality({j \in 0..(n - 1) : before(j, i)}) = r - 1])
    IN  SubSeq(sorted, 1, Min2(k, n))

\* the concordant / discordant count of calculateKendallTau over the
\* collected pairs: pairOf[<<i, j>>] holds the two distances of pair (i, j)
kendallCount(pairIdx, pairOf) ==
    LET cmp(a, b) == IF Lt(b, a) THEN 1 ELSE IF Lt(a, b) THEN -1 ELSE 0
        sgn(p, q) == cmp(pairOf[p].orig, pairOf[q].orig) * cmp(pairOf[p].comp, pairOf[q].comp)
        \* pairs are pushed in the order of (i, j): p is before q
        earlier(p, q) == p[1] < q[1] \/ (p[1] = q[1] /\ p[2] < q[2])
        twos == {pq \in pairIdx \X pairIdx : earlier(pq[1], pq[2])}
        concordant == Cardinality({pq \in twos : sgn(pq[1], pq[2]) > 0})
        discordant == Cardinality({pq \in twos : sgn(pq[1], pq[2]) < 0})
    IN  IF concordant + discordant = 0 THEN Num(0)
        ELSE Frac(concordant - discordant, concordant + discordant)

\* a rank correlation over all of orig, whatever the sample size
calculateKendallTauWhole(orig, comp, sampleSize) ==
    LET n == Len(orig)
        pairIdx == {p \in (0..(n - 1)) \X (0..(n - 1)) : p[1] < p[2]}
        oDist(p) == euclideanDistanceSq(At(orig, p[1]), At(orig, p[2]))
        cDist(p) == euclideanDistanceSq(At(comp, p[1]), At(comp, p[2]))
    IN  kendallCount(pairIdx,
                     Table([p \in pairIdx |-> [orig |-> oDist(p), comp |-> cDist(p)]]))

\* calculateKendallTau over the first min(|orig|, sampleSize) indices
calculateKendallTau(orig, comp, sampleSize) ==
    LET n == Min2(Len(orig), sampleSize)
        pairIdx == {p \in (0..(n - 1)) \X (0..(n - 1)) : p[1] < p[2]}
        oDist(p) == euclideanDistanceSq(At(orig, p[1]), At(orig, p[2]))
        cDist(p) == euclideanDistanceSq(At(comp, p[1]), At(comp, p[2]))
    IN  kendallCount(pairIdx,
                     Table([p \in pairIdx |-> [orig |-> oDist(p), comp |-> cDist(p)]]))

-----------------------------------------------------------------------------
(* metrics.ts *)

SAMPLE_LIMIT == 200

\* the probe depths of the k-variance
kValues == <<3, 7, 15, 30>>

\* the guard's bundle with every field at 0
zeroMetricsAllZero ==
    [recall5 |-> Num(0), recall10 |-> Num(0), mrr |-> Num(0), mse |-> Num(0),
     localDistortion |-> Num(0), trustworthiness |-> Num(0), kendallTau |-> Num(0),
     compressionRatio |-> Num(0), precision10 |-> Num(0), kVariance |-> Num(0),
     centroidSurvivalRatio |-> Num(0), perDimensionMSE |-> <<>>,
     dimensionCollapseRatio |-> Num(0)]

\* the bundle returned for an empty or missing set: no collapseIndex field
zeroMetrics ==
    [recall5 |-> Num(0), recall10 |-> Num(0), mrr |-> Num(0), mse |-> Num(0),
     localDistortion |-> Num(0), trustworthiness |-> Num(0), kendallTau |-> Num(0),
     compressionRatio |-> Num(0), precision10 |-> Num(0), kVariance |-> Num(0),
     centroidSurvivalRatio |-> Num(0), perDimensionMSE |-> <<>>,
     dimensionCollapseRatio |-> Num(1)]

\* the indices the sampling loop visits: 0, step, 2 * step, ... below n
sampleStep(n) == Max2(1, n \div SAMPLE_LIMIT)

\* a sampling that starts at an offset drawn from the seed option
sampleIndicesSeeded(n) ==
    {i \in 0..(n - 1) : (i + options.seed) % (2 * sampleStep(n)) = 0}

sampleIndices(n) == {i \in 0..(n - 1) : i % sampleStep(n) = 0}

\* the queries the loop does not skip: compressed[i] and original[i] exist
sampledQueries(original, compressed) ==
    {i \in sampleIndices(Len(original)) : At(compressed, i) # None}

\* new Set(list.slice(0, depth))
topSet(list, depth) == {list[r] : r \in 1..Min2(depth, Len(list))}

\* the number of ids of the compressed top-depth that are in the true top-depth
intersectionAt(trueNN, compNN, depth) ==
    Cardinality(topSet(compNN, depth) \cap topSet(trueNN, depth))

\* compNN.indexOf(target): the 0-based position, -1 when absent
indexOf(list, target) ==
    IF \E r \in 1..Len(list) : list[r] = target
    THEN (CHOOSE r \in 1..Len(list) :
             list[r] = target /\ \A q \in 1..(r - 1) : list[q] # target) - 1
    ELSE -1

\* the reciprocal-rank term with the two fallbacks exchanged
mrrTermSwapped(trueNN, compNN) ==
    LET target == At(trueNN, 1)
    IN  IF target # None
        THEN LET rank == indexOf(compNN, target[1])
             IN  IF rank # -1 THEN Frac(1, rank + 1) ELSE Num(1)
        ELSE Num(0)

\* the reciprocal-rank term of one query
mrrTerm(trueNN, compNN) ==
    LET target == At(trueNN, 1)
    IN  IF target # None
        THEN LET rank == indexOf(compNN, target[1])
             IN  IF rank # -1 THEN Frac(1, rank + 1) ELSE Num(0)
        ELSE Num(1)

\* v[d] for a 0-based d; a missing coordinate is undefined, NaN in arithmetic
coordAt(v, d) == IF d < Len(v) THEN v[d + 1] ELSE NaN

\* the terms of one query with precision taken over the compressed
\* neighbours that were returned
neighbourTermsOwnPrecision(query, compVec, compressed, dim, trueNN, compNN) ==
    LET intersection10 == intersectionAt(trueNN, compNN, 10)
    IN  [recall5 |-> Frac(intersectionAt(trueNN, compNN, 5), 5),
         recall10 |-> Frac(intersection10, 10),
         precision10 |-> Frac(intersection10, Min2(10, Len(compNN))),
         trustworthiness |-> Frac(intersection10, 10),
         mrr |-> mrrTerm(trueNN, compNN),
         \* euclideanDistance(query, compVec) ** 2
         mse |-> euclideanDistanceSq(Some(query), Some(compVec)),
         perDim |-> Array([d \in 1..dim |->
                       Square(Sub(coordAt(query, d - 1), coordAt(compVec, d - 1)))]),
         localDistortion |-> euclideanDistance(Some(query), At(compressed, compNN[1])),
         recallAtK |-> Array([ki \in 1..Len(kValues) |->
                          Frac(intersectionAt(trueNN, compNN, kValues[ki]), kValues[ki])])]

\* what one pass of the sampling loop adds to the accumulators, once the
\* two neighbour lists of the query are known
neighbourTerms(query, compVec, compressed, dim, trueNN, compNN) ==
    LET intersection10 == intersectionAt(trueNN, compNN, 10)
    IN  [recall5 |-> Frac(intersectionAt(trueNN, compNN, 5), 5),
         recall10 |-> Frac(intersection10, 10),
         precision10 |-> Frac(intersection10, 10),
         trustworthiness |-> Frac(intersection10, 10),
         mrr |-> mrrTerm(trueNN, compNN),
         \* euclideanDistance(query, compVec) ** 2
         mse |-> euclideanDistanceSq(Some(query), Some(compVec)),
         perDim |-> Array([d \in 1..dim |->
                       Square(Sub(coordAt(query, d - 1), coordAt(compVec, d - 1)))]),
         localDistortion |-> euclideanDistance(Some(query), At(compressed, compNN[1])),
         recallAtK |-> Array([ki \in 1..Len(kValues) |->
                          Frac(intersectionAt(trueNN, compNN, kValues[ki]), kValues[ki])])]

\* one pass of the sampling loop, for query i
queryTerms(original, compressed, i, dim) ==
    neighbourTerms(original[i + 1], compressed[i + 1], compressed, dim,
                   findKNN(original[i + 1], original, 30),
                   findKNN(original[i + 1], compressed, 30))

\* the accumulated sum returned without dividing by the count
safeDivSum(n, d) == IF d = Num(0) \/ IsNaN(n) THEN Num(0) ELSE n

\* (d === 0 || isNaN(n)) ? 0 : n / d
safeDiv(n, d) == IF d = Num(0) \/ IsNaN(n) THEN Num(0) ELSE Div(n, d)

\* arr.reduce over a set of query indices, in ascending index order
RECURSIVE SumOver(_, _)
SumOver(f, S) ==
    IF S = {} THEN Num(0)
    ELSE LET m == CHOOSE x \in S : \A y \in S : y <= x
         IN  Add(SumOver(f, S \ {m}), f[m])

\* Math.max(...list): -Infinity for an empty list
RECURSIVE MaxSeq(_)
MaxSeq(s) == IF s = <<>> THEN NegInfinity
             ELSE MathMax(MaxSeq(SubSeq(s, 1, Len(s) - 1)), s[Len(s)])

\* the population variance of the per-query recalls at one probe depth
recallVariance(terms, Q, ki) ==
    LET arr == Table([i \in Q |-> terms[i].recallAtK[ki]])
        len == Num(Cardinality(Q))
        mean == Div(SumOver(arr, Q), len)
        sq == Table([i \in Q |-> Square(Sub(arr[i], mean))])
    IN  Div(SumOver(sq, Q), len)

\* the composite score with the weights of recall5 and precision10 exchanged
collapseIndexOfSwappedWeights(recall5, precision10, kVariance, centroidSurvivalRatio) ==
    Add(Add(Add(Mul(Frac(25, 100), Sub(Num(1), recall5)),
                Mul(Frac(35, 100), Sub(Num(1), precision10))),
            Mul(Frac(20, 100), MathMin(Num(1), Mul(kVariance, Num(20))))),
        Mul(Frac(20, 100), Sub(Num(1), centroidSurvivalRatio)))

collapseIndexOf(recall5, precision10, kVariance, centroidSurvivalRatio) ==
    Add(Add(Add(Mul(Frac(35, 100), Sub(Num(1), recall5)),
                Mul(Frac(25, 100), Sub(Num(1), precision10))),
            Mul(Frac(20, 100), MathMin(Num(1), Mul(kVariance, Num(20))))),
        Mul(Frac(20, 100), Sub(Num(1), centroidSurvivalRatio)))

\* the part of calculateMetrics after the sampling loop: the averages over
\* the sampled queries Q, whose accumulated terms are terms[i]
averageMetrics(original, compressed, dim, Q, terms, kt) ==
    LET count == Num(Cardinality(Q))
        sumOf(field) == SumOver(Table([i \in Q |-> terms[i][field]]), Q)
        kVariances == Array([ki \in 1..Len(kValues) |-> recallVariance(terms, Q, ki)])
        kVariance == Div(SumSeq(kVariances), Num(Len(kVariances)))
        perDimMSE == Array([d \in 1..dim |->
                        SumOver(Table([i \in Q |-> terms[i].perDim[d]]), Q)])
        perDimensionMSE == Array([d \in 1..dim |-> Div(perDimMSE[d], count)])
        maxDimMSE == MaxSeq(perDimensionMSE)
        meanDimMSE == Div(SumSeq(perDimensionMSE), Num(Len(perDimensionMSE)))
        dimensionCollapseRatio ==
            IF Gt(meanDimMSE, Num(0)) THEN Div(maxDimMSE, meanDimMSE) ELSE Num(1)
        uniqueCentroids == countUniqueVectors(compressed)
        centroidSurvivalRatio == Frac(uniqueCentroids, Len(original))
        compressionRatio == Frac(Len(original), uniqueCentroids)
        recall5 == safeDiv(sumOf("recall5"), count)
        precision10 == safeDiv(sumOf("precision10"), count)
        collapseIndex ==
            collapseIndexOf(recall5, precision10, kVariance, centroidSurvivalRatio)
    IN  [recall5 |-> recall5,
         recall10 |-> safeDiv(sumOf("recall10"), count),
         mrr |-> safeDiv(sumOf("mrr"), count),
         mse |-> safeDiv(sumOf("mse"), count),
         localDistortion |-> safeDiv(sumOf("localDistortion"), count),
         trustworthiness |-> safeDiv(sumOf("trustworthiness"), count),
         kendallTau |-> kt,
         compressionRatio |-> compressionRatio,
         precision10 |-> precision10,
         kVariance |-> kVariance,
         perDimensionMSE |-> perDimensionMSE,
         dimensionCollapseRatio |-> dimensionCollapseRatio,
         centroidSurvivalRatio |-> centroidSurvivalRatio,
         collapseIndex |-> collapseIndex]

\* a computation whose rank correlation runs over the first k vectors
calculateMetricsPrefixK(originalOpt, compressedOpt, k) ==
    IF originalOpt = None \/ compressedOpt = None THEN zeroMetrics
    ELSE IF Len(originalOpt[1]) = 0 THEN zeroMetrics
    ELSE
    LET original == originalOpt[1]
        compressed == compressedOpt[1]
        dim == Len(original[1])
        Q == sampledQueries(original, compressed)
    IN  averageMetrics(original, compressed, dim, Q,
                       Table([i \in Q |-> queryTerms(original, compressed, i, dim)]),
                       calculateKendallTau(original, compressed, k))

\* calculateMetrics(original, compressed, k), both sets optional
calculateMetrics(originalOpt, compressedOpt, k) ==
    IF originalOpt = None \/ compressedOpt = None THEN zeroMetrics
    ELSE IF Len(originalOpt[1]) = 0 THEN zeroMetrics
    ELSE
    LET original == originalOpt[1]
        compressed == compressedOpt[1]
        dim == Len(original[1])
        Q == sampledQueries(original, compressed)
    IN  averageMetrics(original, compressed, dim, Q,
                       Table([i \in Q |-> queryTerms(original, compressed, i, dim)]),
                       calculateKendallTau(original, compressed, 40))

\* metrics.collapseIndex ?? 0
collapseIndexOrZero(metrics) ==
    IF "collapseIndex" \in DOMAIN metrics THEN metrics.collapseIndex ELSE Num(0)

\* the breakpoints taken as inclusive upper ends
detectRegimeLe(metrics) ==
    LET collapseIndex == collapseIndexOrZero(metrics)
    IN  IF Le(collapseIndex, Frac(15, 100)) THEN "STABLE"
        ELSE IF Le(collapseIndex, Frac(35, 100)) THEN "PRE_COLLAPSE"
        ELSE IF Le(collapseIndex, Frac(60, 100)) THEN "COLLAPSE"
        ELSE "POST_COLLAPSE"

detectRegime(metrics) ==
    LET collapseIndex == collapseIndexOrZero(metrics)
    IN  IF Lt(collapseIndex, Frac(15, 100)) THEN "STABLE"
        ELSE IF Lt(collapseIndex, Frac(35, 100)) THEN "PRE_COLLAPSE"
        ELSE IF Lt(collapseIndex, Frac(60, 100)) THEN "COLLAPSE"
        ELSE "POST_COLLAPSE"

-----------------------------------------------------------------------------
(* index.ts: the quantizers *)

\* Math.round(val / step) * step
\* a grid snap that always moves up to the next grid point
gridSnapUp(val, step) == Mul(Add(MathFloor(Div(val, step)), Num(1)), step)

gridSnap(val, step) == Mul(MathRound(Div(val, step)), step)

latticeVector(v, step) == Array([i \in 1..Len(v) |-> gridSnap(v[i], step)])

\* a quantizer that returns each grid point once: the distinct centroids
latticeQuantizationDistinct(vs, step) ==
    IF Le(step, Num(0)) THEN vs
    ELSE LET snapped == Array([j \in 1..Len(vs) |-> latticeVector(vs[j], step)])
             first == SelectSeq(Array([j \in 1..Len(vs) |-> j]),
                                LAMBDA j : \A i \in 1..(j - 1) : snapped[i] # snapped[j])
         IN  Array([r \in 1..Len(first) |-> snapped[first[r]]])

latticeQuantization(vs, step) ==
    IF Le(step, Num(0)) THEN vs
    ELSE Array([j \in 1..Len(vs) |-> latticeVector(vs[j], step)])

\* the two branches of the boundary test exchanged
boundaryAwareVectorSwapped(v, baseStep, threshold) ==
    LET fineStep == Div(baseStep, Num(2))
        coarse == latticeVector(v, baseStep)
        distSq == euclideanDistanceSq(Some(v), Some(coarse))
    IN  IF SqrtGt(distSq, threshold) THEN coarse ELSE latticeVector(v, fineStep)

\* the boundary test with >= in place of >
boundaryAwareVectorGe(v, baseStep, threshold) ==
    LET fineStep == Div(baseStep, Num(2))
        coarse == latticeVector(v, baseStep)
        distSq == euclideanDistanceSq(Some(v), Some(coarse))
    IN  IF SqrtGt(distSq, threshold) \/ distSq = Square(threshold)
        THEN latticeVector(v, fineStep) ELSE coarse

\* a second grid of twice the base step in place of half of it
boundaryAwareVectorDoubleStep(v, baseStep, threshold) ==
    LET fineStep == Mul(baseStep, Num(2))
        coarse == latticeVector(v, baseStep)
        distSq == euclideanDistanceSq(Some(v), Some(coarse))
    IN  IF SqrtGt(distSq, threshold) THEN latticeVector(v, fineStep) ELSE coarse

boundaryAwareVector(v, baseStep, threshold) ==
    LET fineStep == Div(baseStep, Num(2))
        coarse == latticeVector(v, baseStep)
        distSq == euclideanDistanceSq(Some(v), Some(coarse))
    IN  IF SqrtGt(distSq, threshold) THEN latticeVector(v, fineStep) ELSE coarse

boundaryAwareQuantization(vs, baseStep, threshold) ==
    IF Le(baseStep, Num(0)) THEN vs
    ELSE Array([j \in 1..Len(vs) |-> boundaryAwareVector(vs[j], baseStep, threshold)])

-----------------------------------------------------------------------------
(* index.ts: VectorCompressor *)

DEFAULT_OPTIONS ==
    [method |-> "BOUNDARY_AWARE", gridStep |-> Frac(1, 10), boundaryMargin |-> Frac(1, 10),
     clusterCount |-> 256, targetDim |-> 0, k |-> 10, normalize |-> TRUE, seed |-> 42,
     targetRecall |-> Frac(95, 100), autoAdjustGridStep |-> FALSE]

\* { ...base, ...over }: the keys of over replace those of base
Spread(base, over) ==
    [key \in DOMAIN base \cup DOMAIN over |->
        IF key \in DOMAIN over THEN over[key] ELSE base[key]]

\* new VectorCompressor(opts): the options the instance holds
newVectorCompressor(opts) ==
    LET merged == Spread(DEFAULT_OPTIONS, opts)
    IN  IF merged.targetDim = 0
        THEN [merged EXCEPT !.targetDim = DEFAULT_OPTIONS.targetDim]
        ELSE merged

\* an update that starts again from the defaults
setOptionsFromDefaults(current, opts) == Spread(DEFAULT_OPTIONS, opts)

setOptions(current, opts) == Spread(current, opts)

getOptions(current) == current

\* a switch whose unimplemented arms fall through to the lattice arm
quantizeFallThrough(opts, processedVectors) ==
    IF opts.method = "BOUNDARY_AWARE"
    THEN boundaryAwareQuantization(processedVectors, opts.gridStep, opts.boundaryMargin)
    ELSE latticeQuantization(processedVectors, Frac(1, 10))

\* the switch of compress over this.options.method
quantize(opts, processedVectors) ==
    CASE opts.method = "LATTICE" ->
            latticeQuantization(processedVectors, opts.gridStep)
      [] opts.method = "BOUNDARY_AWARE" ->
            boundaryAwareQuantization(processedVectors, opts.gridStep, opts.boundaryMargin)
      [] opts.method = "K_MEANS" -> processedVectors
      [] opts.method = "RANDOM_PROJECTION" -> processedVectors
      [] OTHER -> processedVectors

\* compress(vectors), vectors optional (a missing argument is None)
compress(opts, vectorsOpt) ==
    IF vectorsOpt = None THEN [compressed |-> <<>>, compressionRatio |-> Num(1)]
    ELSE IF Len(vectorsOpt[1]) = 0 THEN [compressed |-> <<>>, compressionRatio |-> Num(1)]
    ELSE
    LET vs == vectorsOpt[1]
        processedVectors == IF opts.normalize THEN normalizeVectors(vs) ELSE vs
        compressed == quantize(opts, processedVectors)
        uniqueCentroids == countUniqueVectors(compressed)
    IN  [compressed |-> compressed,
         compressionRatio |-> Frac(Len(vs), uniqueCentroids)]

emptyMetrics ==
    [recall5 |-> Num(0), recall10 |-> Num(0), mrr |-> Num(0), mse |-> Num(0),
     localDistortion |-> Num(0), trustworthiness |-> Num(0), kendallTau |-> Num(0),
     compressionRatio |-> Num(1), precision10 |-> Num(0), kVariance |-> Num(0),
     centroidSurvivalRatio |-> Num(1), perDimensionMSE |-> <<>>,
     dimensionCollapseRatio |-> Num(1), collapseIndex |-> Num(0)]

\* a warning string, by its kind and the values interpolated into it
Warning(kind) == [kind |-> kind]

DegradationWarning(regime) == [kind |-> "Quality degradation detected", regime |-> regime]

\* the threshold test with >= in place of >
truthyAndGe(x, bound) == x # Num(0) /\ ~IsNaN(x) /\ Ge(x, bound)

\* metrics.x && metrics.x > bound: 0 and NaN are falsy
truthyAndGt(x, bound) == x # Num(0) /\ ~IsNaN(x) /\ Gt(x, bound)

synthesizeWarnings(metrics, regime) ==
    (IF regime = "COLLAPSE" \/ regime = "POST_COLLAPSE"
        THEN <<DegradationWarning(regime)>> ELSE <<>>)
    \o (IF truthyAndGt(metrics.kVariance, Frac(2, 100))
        THEN <<Warning("High k-variance detected")>> ELSE <<>>)
    \o (IF truthyAndGt(metrics.dimensionCollapseRatio, Num(2))
        THEN <<Warning("Dimension-specific collapse detected")>> ELSE <<>>)

\* what compressWithAnalysis returns for a non-empty set, once compress has
\* returned result and calculateMetrics has returned metrics
analysisResult(opts, vectorsOpt, result, metrics) ==
    LET regime == detectRegime(metrics)
        warnings == synthesizeWarnings(metrics, regime)
    IN  [compressed |-> result.compressed, original |-> vectorsOpt, metrics |-> metrics,
         regime |-> regime, compressionRatio |-> result.compressionRatio,
         gridStep |-> Some(opts.gridStep),
         warnings |-> IF Len(warnings) > 0 THEN Some(warnings) ELSE None,
         calls |-> <<"compress", "calculateMetrics", "detectRegime">>]

\* the metrics of a compression result against the caller's own vectors
analyse(opts, vectorsOpt, result) ==
    analysisResult(opts, vectorsOpt, result,
                   calculateMetrics(vectorsOpt, Some(result.compressed), opts.k))

\* the pipeline without its guard for an empty set
compressWithAnalysisUnguarded(opts, vectorsOpt) ==
    analyse(opts, vectorsOpt, compress(opts, vectorsOpt))

\* compressWithAnalysis(vectors); calls lists the components it invoked;
\* gridStep and warnings are optional fields (None is undefined)
compressWithAnalysis(opts, vectorsOpt) ==
    IF vectorsOpt = None \/ (vectorsOpt # None /\ Len(vectorsOpt[1]) = 0)
    THEN [compressed |-> <<>>, original |-> vectorsOpt, metrics |-> emptyMetrics,
          regime |-> "STABLE", compressionRatio |-> Num(1), gridStep |-> None,
          warnings |-> Some(<<Warning("Empty input vectors")>>),
          calls |-> <<"emptyMetrics">>]
    ELSE analyse(opts, vectorsOpt, compress(opts, vectorsOpt))

-----------------------------------------------------------------------------
(* The VectorCompressor under test: one instance, one caller's vector set *)

V3(a, b, c) == <<a, b, c>>

\* the vectors the caller's sets are drawn from: the zero vector, a short
\* vector off the grid in one coordinate only, and two vectors of norm 2
\* whose unit vectors (0.96, 0.28, 0) and (40/41, 9/41, 0) share a cell of
\* the 0.2 grid but not of the 0.1 grid
Palette ==
    <<V3(Num(0), Num(0), Num(0)),
      V3(Frac(1, 20), Num(0), Num(0)),
      V3(Frac(48, 25), Frac(14, 25), Num(0)),
      V3(Frac(80, 41), Frac(18, 41), Num(0))>>

\* the vector sets of up to MaxN palette vectors, in palette order (equal
\* vectors are adjacent)
VectorSets ==
    UNION {{Array([i \in 1..n |-> Palette[f[i]]]) :
               f \in {g \in [1..n -> 1..Len(Palette)] :
                          \A i \in 1..(n - 1) : g[i] <= g[i + 1]}} :
           n \in 0..MaxN}

\* the argument of compress / compressWithAnalysis: a set, or missing
InputChoices == {None} \cup {Some(vs) : vs \in VectorSets}

NoOptions == [key \in {} |-> 0]

\* the option objects passed to the constructor and to setOptions
OptionChoices ==
    {NoOptions,
     [method |-> "LATTICE"], [method |-> "K_MEANS"], [method |-> "RANDOM_PROJECTION"],
     [gridStep |-> Num(0)],
     [normalize |-> FALSE],
     [method |-> "LATTICE", gridStep |-> Frac(1, 20), k |-> 5]}

Init ==
    /\ vectors \in InputChoices
    /\ \E opts \in OptionChoices :
          /\ options = newVectorCompressor(opts)
          /\ ret = [op |-> "new", opts |-> opts]

SetOptions ==
    \E opts \in OptionChoices :
        /\ options' = setOptions(options, opts)
        /\ ret' = [op |-> "setOptions", opts |-> opts]
        /\ UNCHANGED vectors

GetOptions ==
    /\ ret' = [op |-> "getOptions", value |-> getOptions(options)]
    /\ UNCHANGED <<vectors, options>>

Compress ==
    /\ ret' = [op |-> "compress", value |-> compress(options, vectors)]
    /\ UNCHANGED <<vectors, options>>

CompressWithAnalysis ==
    /\ ret' = [op |-> "compressWithAnalysis",
               value |-> compressWithAnalysis(options, vectors)]
    /\ UNCHANGED <<vectors, options>>

Next == SetOptions \/ GetOptions \/ Compress \/ CompressWithAnalysis

Spec == Init /\ [][Next]_vars

-----------------------------------------------------------------------------
(* helpers.ts: safeCompress *)

\* one compressWithAnalysis run of safeCompress, as recorded in runs
RunRecord(opts, result) ==
    [gridStep |-> opts.gridStep, boundaryMargin |-> opts.boundaryMargin,
     regime |-> result.regime]

RECURSIVE safeCompressFrom(_, _, _, _, _)

\* the rest of one pass of the retry loop, once the pass's
\* compressWithAnalysis under opts has returned result
afterAttempt(vectorsOpt, maxAttempts, attempt, gridStep, runs, opts, result) ==
    IF result.regime = "STABLE" \/ result.regime = "PRE_COLLAPSE"
    THEN [value |-> result, runs |-> Append(runs, RunRecord(opts, result))]
    ELSE safeCompressFrom(vectorsOpt, maxAttempts, attempt + 1, Div(gridStep, Num(2)),
                          Append(runs, RunRecord(opts, result)))

\* the code after the loop, once its compressWithAnalysis has returned result
afterLoop(maxAttempts, runs, opts, result) ==
    LET earlier == IF result.warnings = None THEN <<>> ELSE result.warnings[1]
        failed == [kind |-> "Could not achieve stable compression",
                   attempts |-> maxAttempts]
    IN  [value |-> [result EXCEPT !.warnings = Some(Append(earlier, failed))],
         runs |-> Append(runs, RunRecord(opts, result))]

\* the retry loop from attempt on, then the code after it; value is what
\* safeCompress returns and runs the pipeline runs it made, in order
safeCompressFrom(vectorsOpt, maxAttempts, attempt, gridStep, runs) ==
    IF attempt < maxAttempts
    THEN LET opts == newVectorCompressor(
                        [method |-> "BOUNDARY_AWARE", gridStep |-> gridStep,
                         boundaryMargin |-> Div(gridStep, Num(2))])
         IN  afterAttempt(vectorsOpt, maxAttempts, attempt, gridStep, runs, opts,
                          compressWithAnalysis(opts, vectorsOpt))
    ELSE LET opts == newVectorCompressor(
                        [method |-> "BOUNDARY_AWARE", gridStep |-> gridStep])
         IN  afterLoop(maxAttempts, runs, opts, compressWithAnalysis(opts, vectorsOpt))

safeCompress(vectorsOpt, maxAttempts) ==
    safeCompressFrom(vectorsOpt, maxAttempts, 0, Frac(2, 10), <<>>)

SafeInit ==
    /\ vectors \in InputChoices
    /\ options = newVectorCompressor(NoOptions)
    /\ ret = [op |-> "new"]

SafeCompress ==
    \E maxAttempts \in 0..MaxAttempts :
        /\ ret' = [op |-> "safeCompress", maxAttempts |-> maxAttempts]
                  @@ safeCompress(vectors, maxAttempts)
        /\ UNCHANGED <<vectors, options>>

SafeNext == SafeCompress

SpecSafe == SafeInit /\ [][SafeNext]_vars

-----------------------------------------------------------------------------
(* safeCompress pass by pass: ret holds the frame of the call *)

\* a refinement that leaves the grid as it is
refineGridNot(gridStep) == gridStep

\* gridStep = gridStep / 2
refineGrid(gridStep) == Div(gridStep, Num(2))

\* the frame after one more pipeline run under opts
Frame(op, attempt, gridStep, opts, result) ==
    [op |-> op, maxAttempts |-> ret.maxAttempts, attempt |-> attempt,
     gridStep |-> gridStep, runs |-> Append(ret.runs, RunRecord(opts, result))]

\* safeCompress(vectors, maxAttempts) is entered
SafeLoopInit ==
    /\ vectors \in InputChoices
    /\ options = newVectorCompressor(NoOptions)
    /\ \E maxAttempts \in 0..MaxAttempts :
          ret = [op |-> "call", maxAttempts |-> maxAttempts, attempt |-> 0,
                 gridStep |-> Frac(2, 10), runs |-> <<>>]

\* the rest of a pass once its run under opts has returned result: return
\* the result, or refine the grid and go round again
AttemptDone(opts, result) ==
    /\ options' = opts
    /\ ret' = IF result.regime = "STABLE" \/ result.regime = "PRE_COLLAPSE"
              THEN Frame("return", ret.attempt, ret.gridStep, opts, result)
                   @@ [value |-> result]
              ELSE Frame("loop", ret.attempt + 1, refineGrid(ret.gridStep), opts, result)
    /\ UNCHANGED vectors

\* one pass of the retry loop
Attempt ==
    /\ ret.op \in {"call", "loop"}
    /\ ret.attempt < ret.maxAttempts
    /\ LET opts == newVectorCompressor(
                       [method |-> "BOUNDARY_AWARE", gridStep |-> ret.gridStep,
                        boundaryMargin |-> Div(ret.gridStep, Num(2))])
       IN  AttemptDone(opts, compressWithAnalysis(opts, vectors))

\* the rest of the code after the loop once its run has returned result
LoopDone(opts, result) ==
    /\ options' = opts
    /\ ret' = Frame("return", ret.attempt, ret.gridStep, opts, result)
              @@ [value |-> afterLoop(ret.maxAttempts, ret.runs, opts, result).value]
    /\ UNCHANGED vectors

\* the code after the loop
AfterLoop ==
    /\ ret.op \in {"call", "loop"}
    /\ ret.attempt >= ret.maxAttempts
    /\ LET opts == newVectorCompressor(
                       [method |-> "BOUNDARY_AWARE", gridStep |-> ret.gridStep])
       IN  LoopDone(opts, compressWithAnalysis(opts, vectors))

SafeLoopNext == Attempt \/ AfterLoop

\* the call runs on: a call that has not returned takes its next pass (weak
\* fairness of the pass, which is enabled exactly until the call returns)
SpecSafeLoop ==
    /\ SafeLoopInit /\ [][SafeLoopNext]_vars
    /\ []<>(ret.op = "return") \/ []<><<SafeLoopNext>>_vars

-----------------------------------------------------------------------------
(* The quantizers alone, applied to a vector set and to their own output *)

V2(a, b) == <<a, b>>

QCoords == {Frac(c, 4) : c \in (-QMaxCoord)..QMaxCoord}

QVectors == {V2(a, b) : a \in QCoords, b \in QCoords}

\* single vectors, pairs with a fixed second vector, and the two vectors of
\* the documented scenario
QVectorSets ==
    {<<v>> : v \in QVectors}
    \cup {<<v, V2(Frac(1, 4), Frac(-1, 2))>> : v \in QVectors}
    \cup {<<>>, <<V3(Num(0), Num(0), Num(0)), V3(Num(10), Num(10), Num(10))>>}

QSteps == {Num(1), Frac(1, 3), Num(0), Num(-1)}

QMargins == {Frac(-1, 4), Num(0), Frac(1, 10), Frac(1, 4), Frac(1, 2)}

QuantInit ==
    /\ vectors \in {Some(vs) : vs \in QVectorSets}
    /\ \E step \in QSteps, margin \in QMargins :
          options = newVectorCompressor([gridStep |-> step, boundaryMargin |-> margin])
    /\ ret = [op |-> "new"]

\* latticeQuantization(vectors, this.options.gridStep)
Lattice ==
    /\ ret.op = "new"
    /\ ret' = [op |-> "lattice", input |-> vectors[1],
               value |-> latticeQuantization(vectors[1], options.gridStep)]
    /\ UNCHANGED <<vectors, options>>

\* the same call on what the last lattice call returned
LatticeAgain ==
    /\ ret.op \in {"lattice", "latticeAgain"}
    /\ ret' = [op |-> "latticeAgain", input |-> ret.value,
               value |-> latticeQuantization(ret.value, options.gridStep)]
    /\ UNCHANGED <<vectors, options>>

\* boundaryAwareQuantization(vectors, gridStep, boundaryMargin)
BoundaryAware ==
    /\ ret.op = "new"
    /\ ret' = [op |-> "boundaryAware", input |-> vectors[1],
               value |-> boundaryAwareQuantization(vectors[1], options.gridStep,
                                                   options.boundaryMargin)]
    /\ UNCHANGED <<vectors, options>>

\* the same call on what the last boundary-aware call returned
BoundaryAwareAgain ==
    /\ ret.op \in {"boundaryAware", "boundaryAwareAgain"}
    /\ ret' = [op |-> "boundaryAwareAgain", input |-> ret.value,
               value |-> boundaryAwareQuantization(ret.value, options.gridStep,
                                                   options.boundaryMargin)]
    /\ UNCHANGED <<vectors, options>>

QuantNext == Lattice \/ LatticeAgain \/ BoundaryAware \/ BoundaryAwareAgain

SpecQuant == QuantInit /\ [][QuantNext]_vars

-----------------------------------------------------------------------------
(* detectRegime and the warning synthesis alone, applied to a metrics bundle *)

KVarianceLevels == {Num(0), Frac(1, 100), Frac(2, 100), Frac(3, 100), NaN}

DimensionRatioLevels == {Num(1), Num(2), Num(3), NaN}

CollapseIndexLevels == {Frac(c, 100) : c \in 0..MaxIndex} \cup {NaN}

\* bundles with every collapse index k/100, k-variances and dimension ratios
\* on both sides of their warning thresholds, and the bundle without a
\* collapse index
RegimeBundles ==
    {[emptyMetrics EXCEPT !.collapseIndex = ci, !.kVariance = kv,
                          !.dimensionCollapseRatio = dr] :
        ci \in CollapseIndexLevels, kv \in KVarianceLevels, dr \in DimensionRatioLevels}
    \cup {zeroMetrics}

RegimeInit ==
    /\ vectors = Some(<<Palette[2]>>)
    /\ options = newVectorCompressor(NoOptions)
    /\ \E metrics \in RegimeBundles : ret = [op |-> "metrics", value |-> metrics]

DetectRegime ==
    /\ ret.op = "metrics"
    /\ ret' = [op |-> "detectRegime", metrics |-> ret.value,
               value |-> detectRegime(ret.value)]
    /\ UNCHANGED <<vectors, options>>

\* the part of compressWithAnalysis that follows calculateMetrics, on a
\* bundle standing for what calculateMetrics returned
Analyse ==
    /\ ret.op = "metrics"
    /\ ret' = [op |-> "analysis", metrics |-> ret.value,
               value |-> analysisResult(options, vectors, compress(options, vectors),
                                        ret.value)]
    /\ UNCHANGED <<vectors, options>>

RegimeNext == DetectRegime \/ Analyse

SpecRegime == RegimeInit /\ [][RegimeNext]_vars

-----------------------------------------------------------------------------
(* The sampling loop of calculateMetrics alone, on the size of the original set *)

SampleInit ==
    /\ vectors = None
    /\ options = newVectorCompressor(NoOptions)
    /\ \E n \in 1..MaxSampleN : ret = [op |-> "size", n |-> n]

\* the stride and the indices the loop visits for an original set of n vectors
SampleLoop ==
    /\ ret.op = "size"
    /\ ret' = [op |-> "sampleLoop", n |-> ret.n, step |-> sampleStep(ret.n),
               indices |-> sampleIndices(ret.n)]
    /\ UNCHANGED <<vectors, options>>

SampleNext == SampleLoop

SpecSample == SampleInit /\ [][SampleNext]_vars

-----------------------------------------------------------------------------
(* calculateMetrics, findKNN and detectRegime called directly *)

\* five distinct vectors: the smallest set whose top-5 lists are full
FiveDistinct ==
    <<V3(Num(0), Num(0), Num(0)), V3(Num(1), Num(0), Num(0)), V3(Num(0), Num(1), Num(0)),
      V3(Num(0), Num(0), Num(1)), V3(Num(1), Num(1), Num(0))>>

\* eleven points on a line, 1/20 apart: more than the ten a top-10 list holds
ElevenOnLine == Array([i \in 1..11 |-> V3(Frac(i - 1, 20), Num(0), Num(0))])

OriginalChoices == InputChoices \cup {Some(FiveDistinct), Some(ElevenOnLine)}

\* the compressed sets passed next to an original set: missing, empty, the
\* original itself, two quantizations of it, and a set one vector short
CompressedChoices(originalOpt) ==
    IF originalOpt = None THEN {None, Some(<<>>)}
    ELSE LET vs == originalOpt[1]
         IN  {None, Some(<<>>), Some(vs),
              Some(latticeQuantization(vs, Frac(1, 10))),
              Some(boundaryAwareQuantization(normalizeVectors(vs), Frac(2, 10),
                                             Frac(1, 10))),
              Some(SubSeq(vs, 1, Len(vs) - 1))}

KChoices == {5, 10}

SeedChoices == {7, 42}

QueryChoices == {Palette[p] : p \in 1..Len(Palette)} \cup {V3(Num(1), Num(0), Num(0))}

MetricsInit ==
    /\ vectors \in OriginalChoices
    /\ options = newVectorCompressor(NoOptions)
    /\ \E compressedOpt \in CompressedChoices(vectors) :
          ret = [op |-> "args", compressed |-> compressedOpt]

\* calculateMetrics(original, compressed, k)
CalculateMetrics ==
    /\ ret.op = "args"
    /\ \E k \in KChoices :
          ret' = [op |-> "calculateMetrics", compressed |-> ret.compressed, k |-> k,
                  value |-> calculateMetrics(vectors, ret.compressed, k)]
    /\ UNCHANGED <<vectors, options>>

\* a second call with the same arguments; first is what the first returned
CalculateMetricsAgain ==
    /\ ret.op = "calculateMetrics"
    /\ ret' = [op |-> "calculateMetricsAgain", compressed |-> ret.compressed,
               k |-> ret.k, first |-> ret.value,
               value |-> calculateMetrics(vectors, ret.compressed, ret.k)]
    /\ UNCHANGED <<vectors, options>>

\* a second call that differs from the first in k only
CalculateMetricsOtherK ==
    /\ ret.op = "calculateMetrics"
    /\ \E otherK \in KChoices \ {ret.k} :
          ret' = [op |-> "calculateMetricsOtherK", compressed |-> ret.compressed,
                  k |-> ret.k, otherK |-> otherK, first |-> ret.value,
                  value |-> calculateMetrics(vectors, ret.compressed, otherK)]
    /\ UNCHANGED <<vectors, options>>

\* two compressors built from the same options but for k or seed, run on the
\* caller's vectors; the pipeline computes the compressed set itself
TwinCompressors ==
    /\ ret.op = "args"
    /\ ret.compressed = None
    /\ \E base \in OptionChoices,
          override \in {[k |-> k] : k \in KChoices} \cup
                       {[seed |-> seed] : seed \in SeedChoices} :
          /\ \A key \in DOMAIN override :
                Spread(DEFAULT_OPTIONS, base)[key] # override[key]
          /\ ret' = [op |-> "twins", base |-> base, override |-> override,
                     first |-> compressWithAnalysis(newVectorCompressor(base), vectors),
                     second |-> compressWithAnalysis(
                                    newVectorCompressor(Spread(base, override)), vectors)]
    /\ UNCHANGED <<vectors, options>>

\* the caller changes the seed option between two calls
Reseed ==
    /\ ret.op = "calculateMetrics"
    /\ \E seed \in SeedChoices : options' = setOptions(options, [seed |-> seed])
    /\ UNCHANGED <<vectors, ret>>

\* detectRegime on a bundle that calculateMetrics returned
Classify ==
    /\ ret.op = "calculateMetrics"
    /\ ret' = [op |-> "classify", compressed |-> ret.compressed,
               metrics |-> ret.value, value |-> detectRegime(ret.value)]
    /\ UNCHANGED <<vectors, options>>

\* findKNN(query, original, k)
FindKNN ==
    /\ ret.op = "args"
    /\ vectors # None
    /\ \E query \in QueryChoices, k \in 0..MaxK :
          ret' = [op |-> "findKNN", query |-> query, k |-> k,
                  value |-> findKNN(query, vectors[1], k)]
    /\ UNCHANGED <<vectors, options>>

\* the prefix lengths calculateKendallTau is called with: none, too few for
\* two pairs, short prefixes, and the 40 of calculateMetrics
SampleSizes == {0, 2, 3, 4, 40}

\* calculateKendallTau(original, compressed, sampleSize)
CalculateKendallTau ==
    /\ ret.op = "args"
    /\ vectors # None /\ ret.compressed # None
    /\ \E sampleSize \in SampleSizes :
          ret' = [op |-> "calculateKendallTau", compressed |-> ret.compressed,
                  sampleSize |-> sampleSize,
                  value |-> calculateKendallTau(vectors[1], ret.compressed[1], sampleSize)]
    /\ UNCHANGED <<vectors, options>>

MetricsNext ==
    \/ CalculateMetrics
    \/ CalculateMetricsAgain
    \/ Reseed
    \/ Classify
    \/ FindKNN
    \/ CalculateKendallTau
    \/ CalculateMetricsOtherK
    \/ TwinCompressors

SpecMetrics == MetricsInit /\ [][MetricsNext]_vars

-----------------------------------------------------------------------------
(* The regime classifier *)

Regimes == <<"STABLE", "PRE_COLLAPSE", "COLLAPSE", "POST_COLLAPSE">>

\* the rank of a regime, from the least severe to the most severe
Severity(regime) == CHOOSE r \in 1..Len(Regimes) : Regimes[r] = regime

HasIndex(metrics) == "collapseIndex" \in DOMAIN metrics

\* C1: detectRegime classifies by fixed breakpoints: an index below 0.15 is
\* STABLE, from 0.15 and below 0.35 PRE_COLLAPSE, from 0.35 and below 0.60
\* COLLAPSE, from 0.60 POST_COLLAPSE; a bundle without a collapse index is
\* STABLE; every bundle gets a regime, and of two bundles the one with the
\* larger index never gets the less severe regime.
C1_Breakpoints ==
    ret.op = "detectRegime" =>
        /\ \E r \in 1..Len(Regimes) : ret.value = Regimes[r]
        /\ ~HasIndex(ret.metrics) => ret.value = "STABLE"
        /\ HasIndex(ret.metrics) =>
              LET ci == ret.metrics.collapseIndex
              IN  /\ Lt(ci, Frac(15, 100)) => ret.value = "STABLE"
                  /\ Ge(ci, Frac(15, 100)) /\ Lt(ci, Frac(35, 100))
                        => ret.value = "PRE_COLLAPSE"
                  /\ Ge(ci, Frac(35, 100)) /\ Lt(ci, Frac(60, 100))
                        => ret.value = "COLLAPSE"
                  /\ Ge(ci, Frac(60, 100)) => ret.value = "POST_COLLAPSE"
                  /\ \A lower \in CollapseIndexLevels :
                        Le(lower, ci)
                           => Severity(detectRegime([collapseIndex |-> lower]))
                                 <= Severity(ret.value)

\* a bundle exactly on the first breakpoint has been classified
C1_Witness ==
    /\ ret.op = "detectRegime"
    /\ HasIndex(ret.metrics)
    /\ ret.metrics.collapseIndex = Frac(15, 100)
    /\ ret.value = "PRE_COLLAPSE"

-----------------------------------------------------------------------------
(* The quantizers *)

\* C7: lattice quantization with a step > 0, applied to the output of
\* lattice quantization with the same step, returns that output unchanged.
C7_LatticeIdempotent ==
    ret.op = "latticeAgain" /\ Gt(options.gridStep, Num(0)) => ret.value = ret.input

\* a set the first application moved has been quantized a second time
C7_Witness ==
    /\ ret.op = "latticeAgain"
    /\ Gt(options.gridStep, Num(0))
    /\ ret.input # vectors[1]
    /\ ret.input = latticeQuantization(vectors[1], options.gridStep)

\* C8 as stated: boundary-aware quantization with a baseStep > 0 and any
\* boundaryMargin, applied to its own output, returns that output unchanged.
C8_IdempotentAnyMargin ==
    ret.op = "boundaryAwareAgain" /\ Gt(options.gridStep, Num(0))
        => ret.value = ret.input

\* C8: boundary-aware quantization with a baseStep > 0 and a boundaryMargin
\* below baseStep / 2, applied to its own output, returns that output
\* unchanged.
C8_IdempotentSmallMargin ==
    /\ ret.op = "boundaryAwareAgain"
    /\ Gt(options.gridStep, Num(0))
    /\ Lt(options.boundaryMargin, Div(options.gridStep, Num(2)))
    => ret.value = ret.input

\* a set that the first application put on the fine grid, off the coarse
\* grid, has been quantized a second time with a margin below baseStep / 2
C8_Witness ==
    /\ ret.op = "boundaryAwareAgain"
    /\ Gt(options.gridStep, Num(0))
    /\ Lt(options.boundaryMargin, Div(options.gridStep, Num(2)))
    /\ Ge(options.boundaryMargin, Num(0))
    /\ ret.input = boundaryAwareQuantization(vectors[1], options.gridStep,
                                             options.boundaryMargin)
    /\ ret.input # latticeQuantization(ret.input, options.gridStep)

\* the Euclidean distance between v and its coarse-lattice image is <= margin
WithinMargin(v, baseStep, margin) ==
    LET distSq == euclideanDistanceSq(Some(v), Some(latticeVector(v, baseStep)))
    IN  IF Lt(margin, Num(0)) THEN FALSE ELSE Le(distSq, Square(margin))

\* C9: with a baseStep > 0, boundary-aware quantization maps each vector, by
\* itself, to its coarse-lattice image when its distance to that image is
\* <= boundaryMargin and to its lattice image at baseStep / 2 when the
\* distance is greater; a vector on the coarse grid is returned as its
\* coarse-lattice image for every margin >= 0.
C9_PerVectorChoice ==
    ret.op = "boundaryAware" /\ Gt(options.gridStep, Num(0)) =>
        /\ Len(ret.value) = Len(ret.input)
        /\ \A j \in 1..Len(ret.input) :
              LET v == ret.input[j]
                  baseStep == options.gridStep
                  margin == options.boundaryMargin
              IN  /\ ret.value[j] =
                        IF WithinMargin(v, baseStep, margin)
                        THEN latticeVector(v, baseStep)
                        ELSE latticeVector(v, Div(baseStep, Num(2)))
                  /\ v = latticeVector(v, baseStep) /\ Ge(margin, Num(0))
                        => ret.value[j] = latticeVector(v, baseStep)

\* a set of two vectors, the first kept on the coarse grid and the second
\* moved to the fine grid, has been quantized
C9_Witness ==
    /\ ret.op = "boundaryAware"
    /\ Gt(options.gridStep, Num(0))
    /\ Len(ret.input) = 2
    /\ ret.value[1] = latticeVector(ret.input[1], options.gridStep)
    /\ ret.value[2] # latticeVector(ret.input[2], options.gridStep)

-----------------------------------------------------------------------------
(* The pipeline of one VectorCompressor *)

IsEmptyInput == vectors = None \/ vectors = Some(<<>>)

InUnit(x) == Ge(x, Num(0)) /\ Le(x, Num(1))

\* C2: the metrics of every compressWithAnalysis run have recall5, recall10,
\* precision10, trustworthiness and centroidSurvivalRatio in [0, 1],
\* kendallTau in [-1, 1], kVariance >= 0 and collapseIndex in [0, 1].
C2_MetricBounds ==
    ret.op = "compressWithAnalysis" =>
        LET m == ret.value.metrics
        IN  /\ InUnit(m.recall5)
            /\ InUnit(m.recall10)
            /\ InUnit(m.precision10)
            /\ InUnit(m.trustworthiness)
            /\ InUnit(m.centroidSurvivalRatio)
            /\ Ge(m.kendallTau, Num(-1)) /\ Le(m.kendallTau, Num(1))
            /\ Ge(m.kVariance, Num(0))
            /\ InUnit(m.collapseIndex)

\* a run on three vectors of which two were merged, with a recall strictly
\* between 0 and 1
C2_Witness ==
    /\ ret.op = "compressWithAnalysis"
    /\ ~IsEmptyInput
    /\ Len(vectors[1]) = 3
    /\ Lt(Num(0), ret.value.metrics.recall5)
    /\ Lt(ret.value.metrics.recall5, Num(1))
    /\ Lt(ret.value.metrics.centroidSurvivalRatio, Num(1))
    /\ Gt(ret.value.metrics.collapseIndex, Num(0))

\* the number of distinct vectors after rounding each coordinate to 6
\* decimals, floored at 1
CountDistinct(vs) ==
    Max2(1, Cardinality({Array([i \in 1..Len(vs[j]) |->
                           Div(MathRound(Mul(vs[j][i], Num(1000000))), Num(1000000))]) :
                         j \in 1..Len(vs)}))

\* C4: every result of compress and of compressWithAnalysis has a
\* compressionRatio >= 1, and for N > 0 input vectors the ratio is
\* N / CountDistinct(compressed).
C4_CompressionRatio ==
    ret.op \in {"compress", "compressWithAnalysis"} =>
        /\ Ge(ret.value.compressionRatio, Num(1))
        /\ ~IsEmptyInput =>
              ret.value.compressionRatio
                 = Frac(Len(vectors[1]), CountDistinct(ret.value.compressed))

\* a compression that merged vectors: a ratio above 1
C4_Witness ==
    /\ ret.op = "compress"
    /\ ~IsEmptyInput
    /\ Gt(ret.value.compressionRatio, Num(1))
    /\ ret.value.compressed # vectors[1]

\* C5: on an empty or missing set compressWithAnalysis returns an empty
\* compressed set, ratio 1, regime STABLE and exactly the empty-input
\* warning, without invoking compress, calculateMetrics or detectRegime;
\* compress returns an empty compressed set with ratio 1.
C5_EmptyInput ==
    IsEmptyInput =>
        /\ ret.op = "compressWithAnalysis" =>
              /\ ret.value.compressed = <<>>
              /\ ret.value.compressionRatio = Num(1)
              /\ ret.value.regime = "STABLE"
              /\ ret.value.warnings = Some(<<Warning("Empty input vectors")>>)
              /\ \A c \in 1..Len(ret.value.calls) :
                    ret.value.calls[c] \notin {"compress", "calculateMetrics", "detectRegime"}
        /\ ret.op = "compress" =>
              ret.value = [compressed |-> <<>>, compressionRatio |-> Num(1)]

\* the pipeline has run on an empty set that was passed
C5_Witness ==
    /\ vectors = Some(<<>>)
    /\ ret.op = "compressWithAnalysis"
    /\ Len(ret.value.warnings[1]) = 1

\* C10: compress passes its (normalized, when normalize is on) input through
\* unchanged when gridStep <= 0 under LATTICE or BOUNDARY_AWARE, and when the
\* method is K_MEANS or RANDOM_PROJECTION.
C10_PassThrough ==
    /\ ret.op = "compress"
    /\ ~IsEmptyInput
    /\ \/ /\ options.method \in {"LATTICE", "BOUNDARY_AWARE"}
          /\ Le(options.gridStep, Num(0))
       \/ options.method \in {"K_MEANS", "RANDOM_PROJECTION"}
    => ret.value.compressed =
          IF options.normalize THEN normalizeVectors(vectors[1]) ELSE vectors[1]

\* an unimplemented method with a positive grid step has passed through a
\* set that the lattice would have moved
C10_Witness ==
    /\ ret.op = "compress"
    /\ ~IsEmptyInput
    /\ options.method = "K_MEANS"
    /\ Gt(options.gridStep, Num(0))
    /\ ~options.normalize
    /\ ret.value.compressed = vectors[1]
    /\ latticeQuantization(vectors[1], options.gridStep) # vectors[1]

-----------------------------------------------------------------------------
(* The warnings of the pipeline *)

\* the warnings the three rules give, in their order
ExpectedWarnings(regime, metrics) ==
    (IF regime \in {"COLLAPSE", "POST_COLLAPSE"}
        THEN <<[kind |-> "Quality degradation detected", regime |-> regime]>> ELSE <<>>)
    \o (IF Gt(metrics.kVariance, Frac(2, 100))
        THEN <<[kind |-> "High k-variance detected"]>> ELSE <<>>)
    \o (IF Gt(metrics.dimensionCollapseRatio, Num(2))
        THEN <<[kind |-> "Dimension-specific collapse detected"]>> ELSE <<>>)

\* C6: on non-empty input the warnings are, in this order, the degradation
\* warning naming the regime iff the regime is COLLAPSE or POST_COLLAPSE, the
\* instability warning iff kVariance > 0.02, the dimension warning iff
\* dimensionCollapseRatio > 2; the field is absent iff none applies and is
\* never an empty list.
C6_WarningRules ==
    ret.op \in {"analysis", "compressWithAnalysis"} /\ ~IsEmptyInput =>
        LET expected == ExpectedWarnings(ret.value.regime, ret.value.metrics)
        IN  /\ ret.value.warnings = IF expected = <<>> THEN None ELSE Some(expected)
            /\ ret.value.warnings # Some(<<>>)

\* an analysis that raised all three warnings
C6_Witness ==
    /\ ret.op = "analysis"
    /\ ret.value.warnings # None
    /\ Len(ret.value.warnings[1]) = 3

-----------------------------------------------------------------------------
(* safeCompress *)

\* C3: safeCompress returns a result whose regime is STABLE or PRE_COLLAPSE.
C3_SafeRegime ==
    ret.op = "safeCompress" => ret.value.regime \in {"STABLE", "PRE_COLLAPSE"}

-----------------------------------------------------------------------------
(* The shape of the compressed set *)

\* C11: for every method and gridStep, compress on N > 0 vectors returns N
\* vectors, the i-th with as many coordinates as the i-th input vector.
C11_ShapePreserved ==
    ret.op = "compress" /\ ~IsEmptyInput =>
        /\ Len(ret.value.compressed) = Len(vectors[1])
        /\ \A i \in 1..Len(vectors[1]) :
              Len(ret.value.compressed[i]) = Len(vectors[1][i])

\* a lattice compression that merged two of its three vectors still
\* returned three
C11_Witness ==
    /\ ret.op = "compress"
    /\ ~IsEmptyInput
    /\ options.method = "LATTICE"
    /\ Gt(options.gridStep, Num(0))
    /\ Len(vectors[1]) = 3
    /\ Len(ret.value.compressed) = 3
    /\ Gt(ret.value.compressionRatio, Num(1))

-----------------------------------------------------------------------------
(* The sampling loop *)

\* C12: for every N >= 1 the sampling loop, with stride
\* max(1, floor(N / 200)), visits at most 200 query indices.
C12_AtMost200Samples ==
    ret.op = "sampleLoop" =>
        /\ ret.step = Max2(1, ret.n \div 200)
        /\ ret.indices = {i \in 0..(ret.n - 1) : i % ret.step = 0}
        /\ Cardinality(ret.indices) <= 200

-----------------------------------------------------------------------------
(* calculateMetrics called directly *)

HasOriginal == vectors # None /\ vectors # Some(<<>>)

\* the queries the sampling loop does not skip, for the arguments of the call
SampledCount ==
    IF ret.compressed = None THEN 0
    ELSE Cardinality({i \in 0..(Len(vectors[1]) - 1) :
                        i % Max2(1, Len(vectors[1]) \div 200) = 0
                        /\ i < Len(ret.compressed[1])})

\* C13: for a non-empty original set and any compressed set, every field of
\* the bundle calculateMetrics returns is a number other than NaN, and each
\* per-query average is 0 when no query was sampled.
C13_NoNaN ==
    ret.op = "calculateMetrics" /\ HasOriginal /\ ret.compressed # None =>
        LET m == ret.value
        IN  /\ \A field \in {"recall5", "recall10", "mrr", "mse", "localDistortion",
                             "trustworthiness", "precision10", "kVariance",
                             "dimensionCollapseRatio", "collapseIndex"} :
                  field \in DOMAIN m /\ ~IsNaN(m[field])
            /\ \A d \in 1..Len(m.perDimensionMSE) : ~IsNaN(m.perDimensionMSE[d])
            /\ SampledCount = 0 =>
                  \A field \in {"recall5", "recall10", "mrr", "mse", "localDistortion",
                                "trustworthiness", "precision10"} : m[field] = Num(0)

\* the sampled queries of the call, and the two neighbour lists of query i
SampledSet ==
    {i \in 0..(Len(vectors[1]) - 1) :
        i % Max2(1, Len(vectors[1]) \div 200) = 0 /\ i < Len(ret.compressed[1])}

TrueList(i) == findKNN(vectors[1][i + 1], vectors[1], 30)

CompList(i) == findKNN(vectors[1][i + 1], ret.compressed[1], 30)

\* the target of a query is trueNN[1]: undefined for a one-entry list
TargetUndefinedIn(trueNN) == Len(trueNN) < 2

TargetMissedIn(trueNN, compNN) ==
    /\ ~TargetUndefinedIn(trueNN)
    /\ \A r \in 1..Len(compNN) : compNN[r] # trueNN[2]

TargetUndefined(i) == TargetUndefinedIn(TrueList(i))

TargetMissed(i) == TargetMissedIn(TrueList(i), CompList(i))

\* 1/(rank+1) for the target found at 0-based position rank, else the given
\* contribution of an undefined target or of a target that is not found
ContributionIn(trueNN, compNN, whenUndefined, whenMissed) ==
    IF TargetUndefinedIn(trueNN) THEN whenUndefined
    ELSE IF TargetMissedIn(trueNN, compNN) THEN whenMissed
    ELSE Frac(1, CHOOSE r \in 1..Len(compNN) : compNN[r] = trueNN[2])

Contribution(i, whenUndefined, whenMissed) ==
    ContributionIn(TrueList(i), CompList(i), whenUndefined, whenMissed)

RECURSIVE ContributionSum(_, _, _)
ContributionSum(S, whenUndefined, whenMissed) ==
    IF S = {} THEN Num(0)
    ELSE LET i == CHOOSE x \in S : TRUE
         IN  Add(Contribution(i, whenUndefined, whenMissed),
                 ContributionSum(S \ {i}, whenUndefined, whenMissed))

MrrIsMeanOf(whenUndefined, whenMissed) ==
    ret.op = "calculateMetrics" /\ HasOriginal /\ ret.compressed # None =>
        IF SampledSet = {} THEN ret.value.mrr = Num(0)
        ELSE ret.value.mrr = Div(ContributionSum(SampledSet, whenUndefined, whenMissed),
                                 Num(Cardinality(SampledSet)))

\* C14 as stated: mrr is the mean over the sampled queries of 1/(rank+1) when
\* the target (second entry of the true list) is found at 0-based position
\* rank of the compressed list, 0 when the target is undefined, 1 when the
\* target exists but is not found.
C14_MrrAsStated == MrrIsMeanOf(Num(0), Num(1))

\* C14 amended: mrr is the mean over the sampled queries of 1/(rank+1) when
\* the target is found at 0-based position rank of the compressed list, 1
\* when the target is undefined, 0 when the target exists but is not found;
\* mrr is 0 when no query is sampled.
C14_MrrContribution == MrrIsMeanOf(Num(1), Num(0))

\* a bundle whose sampled queries include a found target beyond position 0
\* and a target that is not found
C14_Witness ==
    /\ ret.op = "calculateMetrics" /\ HasOriginal /\ ret.compressed # None
    /\ \E i \in SampledSet : TargetMissed(i)
    /\ \E i \in SampledSet :
          ~TargetUndefined(i) /\ ~TargetMissed(i) /\ CompList(i)[1] # TrueList(i)[2]

-----------------------------------------------------------------------------
(* findKNN called directly *)

\* the squared distance from the query of the call to haystack[i]
QueryDistSq(i) ==
    LET len == Min2(Len(ret.query), Len(vectors[1][i + 1]))
    IN  SumSeq([c \in 1..len |->
                  Mul(Sub(ret.query[c], vectors[1][i + 1][c]),
                      Sub(ret.query[c], vectors[1][i + 1][c]))])

\* C16: findKNN(query, haystack, k) returns min(k, |haystack|) pairwise
\* distinct indices of haystack in ascending distance from the query, equal
\* distances in ascending index; an index that is not returned is no nearer
\* than any returned one; an entry equal to the query is not left out.
C16_NearestNeighbours ==
    ret.op = "findKNN" =>
        LET n == Len(vectors[1])
            r == ret.value
            returned == {r[p] : p \in 1..Len(r)}
        IN  /\ Len(r) = Min2(ret.k, n)
            /\ returned \subseteq 0..(n - 1)
            /\ \A p, q \in 1..Len(r) : p < q =>
                  /\ r[p] # r[q]
                  /\ \/ Lt(QueryDistSq(r[p]), QueryDistSq(r[q]))
                     \/ QueryDistSq(r[p]) = QueryDistSq(r[q]) /\ r[p] < r[q]
            /\ \A i \in (0..(n - 1)) \ returned : \A j \in returned :
                  Ge(QueryDistSq(i), QueryDistSq(j))
            /\ \A i \in 0..(n - 1) :
                  vectors[1][i + 1] = ret.query /\ ret.k >= 1 =>
                      vectors[1][r[1] + 1] = ret.query

\* a search that cuts the list, for a query that is in the haystack and has
\* two returned entries at the same distance
C16_Witness ==
    /\ ret.op = "findKNN"
    /\ ret.k >= 2 /\ ret.k < Len(vectors[1])
    /\ \E i \in 1..Len(vectors[1]) : vectors[1][i] = ret.query
    /\ \E p, q \in 1..Len(ret.value) :
          p < q /\ QueryDistSq(ret.value[p]) = QueryDistSq(ret.value[q])

-----------------------------------------------------------------------------
(* the top-10 overlap *)

\* the ids among the first ten entries of a neighbour list
FirstTen(list) == {list[r] : r \in 1..Min2(10, Len(list))}

RECURSIVE OverlapSum(_)
OverlapSum(S) ==
    IF S = {} THEN Num(0)
    ELSE LET i == CHOOSE x \in S : TRUE
         IN  Add(Frac(Cardinality(FirstTen(TrueList(i)) \cap FirstTen(CompList(i))), 10),
                 OverlapSum(S \ {i}))

\* C17: in every bundle calculateMetrics returns, precision10,
\* trustworthiness and recall10 are equal, and each is the mean over the
\* sampled queries of |true top-10 \cap compressed top-10| / 10.
C17_SameOverlap ==
    ret.op = "calculateMetrics" =>
        /\ ret.value.precision10 = ret.value.recall10
        /\ ret.value.trustworthiness = ret.value.recall10
        /\ HasOriginal /\ ret.compressed # None /\ SampledSet # {} =>
              ret.value.recall10 =
                  Div(OverlapSum(SampledSet), Num(Cardinality(SampledSet)))

\* a bundle over more than ten sampled queries, so that the top-10 lists are
\* cut, whose overlap is neither empty nor full
C17_Witness ==
    /\ ret.op = "calculateMetrics" /\ HasOriginal /\ ret.compressed # None
    /\ Cardinality(SampledSet) > 10
    /\ Gt(ret.value.recall10, Num(0))
    /\ Lt(ret.value.recall10, Num(1))

-----------------------------------------------------------------------------
(* detectRegime on the bundles of calculateMetrics *)

\* C18: a bundle that detectRegime classifies STABLE has recall5 > 0.70,
\* precision10 > 0.70 and kVariance < 0.01.
C18_StableMeansGood ==
    ret.op = "classify" /\ ret.value = "STABLE" =>
        /\ Gt(ret.metrics.recall5, Frac(70, 100))
        /\ Gt(ret.metrics.precision10, Frac(70, 100))
        /\ Lt(ret.metrics.kVariance, Frac(1, 100))

\* the call was made with an empty original or with a missing argument
GuardedCall == vectors = None \/ vectors = Some(<<>>) \/ ret.compressed = None

ZeroFields ==
    {"recall5", "recall10", "precision10", "mrr", "mse", "localDistortion",
     "trustworthiness", "kendallTau", "compressionRatio", "kVariance",
     "centroidSurvivalRatio"}

GuardBundle(m) ==
    /\ \A field \in ZeroFields : field \in DOMAIN m /\ m[field] = Num(0)
    /\ m.perDimensionMSE = <<>>
    /\ m.dimensionCollapseRatio = Num(1)

\* C19 as stated: for an empty original or a missing argument the bundle has
\* every metric at 0, collapseIndex included, perDimensionMSE empty and
\* dimensionCollapseRatio 1, and classifying it gives STABLE.
C19_GuardAllZero ==
    /\ ret.op = "calculateMetrics" /\ GuardedCall =>
          /\ GuardBundle(ret.value)
          /\ "collapseIndex" \in DOMAIN ret.value
          /\ collapseIndexOrZero(ret.value) = Num(0)
    /\ ret.op = "classify" /\ GuardedCall => ret.value = "STABLE"

\* C19 amended: for an empty original or a missing argument the bundle has
\* recall5, recall10, precision10, mrr, mse, localDistortion,
\* trustworthiness, kendallTau, compressionRatio, kVariance and
\* centroidSurvivalRatio at 0, perDimensionMSE empty, dimensionCollapseRatio
\* 1 and no collapseIndex; classifying it gives STABLE.
C19_GuardBundle ==
    /\ ret.op = "calculateMetrics" /\ GuardedCall =>
          /\ GuardBundle(ret.value)
          /\ "collapseIndex" \notin DOMAIN ret.value
    /\ ret.op = "classify" /\ GuardedCall =>
          /\ GuardBundle(ret.metrics)
          /\ ret.value = "STABLE"

\* the bundle of a call with vectors to compare against and no compressed
\* set, classified
C19_Witness ==
    /\ ret.op = "classify"
    /\ HasOriginal /\ ret.compressed = None
    /\ ret.value = "STABLE"

-----------------------------------------------------------------------------
(* the configuration of a VectorCompressor *)

OptionKeys == DOMAIN DEFAULT_OPTIONS

\* the defaults, the constructor's result and the value getOptions returns
C20_Configuration ==
    /\ DEFAULT_OPTIONS.method = "BOUNDARY_AWARE"
    /\ DEFAULT_OPTIONS.gridStep = Frac(1, 10)
    /\ DEFAULT_OPTIONS.boundaryMargin = Frac(1, 10)
    /\ DEFAULT_OPTIONS.k = 10
    /\ DEFAULT_OPTIONS.normalize = TRUE
    /\ DEFAULT_OPTIONS.seed = 42
    /\ DOMAIN options = OptionKeys
    /\ ret.op = "new" =>
          \A key \in OptionKeys :
              options[key] = IF key \in DOMAIN ret.opts THEN ret.opts[key]
                             ELSE DEFAULT_OPTIONS[key]
    /\ ret.op = "getOptions" =>
          \A key \in OptionKeys : ret.value[key] = options[key]

\* one operation on the instance
C20_Step ==
    /\ ret'.op = "setOptions" =>
          \A key \in OptionKeys :
              options'[key] = IF key \in DOMAIN ret'.opts THEN ret'.opts[key]
                              ELSE options[key]
    /\ ret'.op \in {"getOptions", "compress", "compressWithAnalysis"} =>
          options' = options
    /\ C20_Configuration'

\* C20: the constructor leaves each key at the value it was given, else at
\* the default (method BOUNDARY_AWARE, gridStep 0.1, boundaryMargin 0.1, k 10,
\* normalize true, seed 42); setOptions sets the keys it is given and leaves
\* every other key unchanged; compress, compressWithAnalysis and getOptions
\* leave the configuration unchanged; getOptions returns the configuration.
\* So getOptions returns, per key, the value most recently supplied, else the
\* default.
C20_MostRecentOption == C20_Configuration /\ [][C20_Step]_vars

\* getOptions after updates that left a key from the constructor, a key from
\* setOptions and keys at their defaults
C20_Witness ==
    /\ ret.op = "getOptions"
    /\ ret.value.method = "LATTICE"
    /\ ret.value.gridStep = Num(0)
    /\ ret.value.k = 5
    /\ ret.value.normalize = FALSE
    /\ ret.value.seed = 42

-----------------------------------------------------------------------------
(* the collapse index *)

\* min(1, x), NaN for a NaN x
CapAtOne(x) == IF IsNaN(x) THEN x ELSE IF Lt(x, Num(1)) THEN x ELSE Num(1)

\* C21: in every bundle calculateMetrics returns for a non-empty original
\* set, collapseIndex = 0.35 (1 - recall5) + 0.25 (1 - precision10)
\* + 0.20 min(1, 20 kVariance) + 0.20 (1 - centroidSurvivalRatio) over the
\* fields of the same bundle, and centroidSurvivalRatio is
\* countDistinct(compressed) / N.
C21_CollapseIndex ==
    ret.op = "calculateMetrics" /\ HasOriginal /\ ret.compressed # None =>
        LET m == ret.value
        IN  /\ m.centroidSurvivalRatio
                  = Frac(CountDistinct(ret.compressed[1]), Len(vectors[1]))
            /\ m.collapseIndex
                  = Add(Add(Add(Mul(Frac(35, 100), Sub(Num(1), m.recall5)),
                                Mul(Frac(25, 100), Sub(Num(1), m.precision10))),
                            Mul(Frac(20, 100), CapAtOne(Mul(Num(20), m.kVariance)))),
                        Mul(Frac(20, 100), Sub(Num(1), m.centroidSurvivalRatio)))

\* a bundle in which all four terms of the index are positive and recall5
\* differs from precision10
C21_Witness ==
    /\ ret.op = "calculateMetrics" /\ HasOriginal /\ ret.compressed # None
    /\ Lt(ret.value.recall5, Num(1))
    /\ Lt(ret.value.precision10, Num(1))
    /\ ret.value.recall5 # ret.value.precision10
    /\ Gt(ret.value.kVariance, Num(0))
    /\ Lt(ret.value.centroidSurvivalRatio, Num(1))

-----------------------------------------------------------------------------
(* the two sets compared by the pipeline *)

\* C22: in every compressWithAnalysis run on non-empty input, normalize on
\* or off, the compressed vector at index i is the quantizer's output for
\* the vector at index i of the original set handed to calculateMetrics
\* alongside it.
C22_IndexAligned ==
    ret.op = "compressWithAnalysis" /\ ~IsEmptyInput =>
        LET original == ret.value.original[1]
            compressed == ret.value.compressed
        IN  /\ Len(compressed) = Len(original)
            /\ \A i \in 1..Len(original) :
                  compressed[i] = quantize(options, <<original[i]>>)[1]

-----------------------------------------------------------------------------
(* the query in its own neighbour list *)

\* C23: for every sampled query index i of calculateMetrics, the first entry
\* of the true neighbour list findKNN(original[i], original, 30) is i, so
\* the target trueNN[1] is a neighbour other than the query.
C23_SelfFirst ==
    ret.op = "calculateMetrics" /\ HasOriginal /\ ret.compressed # None =>
        \A i \in SampledSet :
            LET trueNN == TrueList(i)
            IN  /\ trueNN[1] = i
                /\ Len(trueNN) >= 2 => trueNN[2] # i

-----------------------------------------------------------------------------
(* safeCompress: the result returned when no attempt succeeds *)

FailedWarning(maxAttempts) ==
    [kind |-> "Could not achieve stable compression", attempts |-> maxAttempts]

CarriesFailedWarning(result) ==
    /\ result.warnings # None
    /\ \E w \in 1..Len(result.warnings[1]) :
          result.warnings[1][w].kind = "Could not achieve stable compression"

\* every attempt of the retry loop was made and ended in COLLAPSE or
\* POST_COLLAPSE
AllAttemptsFailed ==
    /\ ret.op = "safeCompress"
    /\ ret.maxAttempts >= 1
    /\ Len(ret.runs) > ret.maxAttempts
    /\ \A j \in 1..ret.maxAttempts : ret.runs[j].regime \in {"COLLAPSE", "POST_COLLAPSE"}

\* the pipeline run of one attempt, made again
AttemptResult(run) ==
    compressWithAnalysis(
        newVectorCompressor([method |-> "BOUNDARY_AWARE", gridStep |-> run.gridStep,
                             boundaryMargin |-> run.boundaryMargin]),
        vectors)

\* C24: when all maxAttempts attempts end in COLLAPSE or POST_COLLAPSE, the
\* returned result is that of the last attempt (its gridStep and
\* boundaryMargin, its compressed set and metrics) with the warning 'Could
\* not achieve stable compression after <maxAttempts> attempts' appended
\* after the existing warnings; a result returned from a successful attempt
\* does not carry that warning.
C24_LastAttemptReturned ==
    /\ AllAttemptsFailed =>
          LET last == ret.runs[ret.maxAttempts]
              final == ret.runs[Len(ret.runs)]
              warnings == ret.value.warnings[1]
          IN  /\ ret.value.gridStep = Some(last.gridStep)
              /\ final.gridStep = last.gridStep
              /\ final.boundaryMargin = last.boundaryMargin
              /\ ret.value.compressed = AttemptResult(last).compressed
              /\ ret.value.metrics = AttemptResult(last).metrics
              /\ warnings[Len(warnings)] = FailedWarning(ret.maxAttempts)
              /\ \A w \in 1..(Len(warnings) - 1) :
                    warnings[w].kind # "Could not achieve stable compression"
    /\ ret.op = "safeCompress" /\ Len(ret.runs) <= ret.maxAttempts =>
          ~CarriesFailedWarning(ret.value)

-----------------------------------------------------------------------------
(* the rank correlation *)

\* the squared distance between entries i and j (0-based) of a set; 0 when
\* either entry is missing
PairDistSq(vs, i, j) ==
    IF i >= Len(vs) \/ j >= Len(vs) THEN Num(0)
    ELSE SumSeq([c \in 1..Min2(Len(vs[i + 1]), Len(vs[j + 1])) |->
                   Mul(Sub(vs[i + 1][c], vs[j + 1][c]), Sub(vs[i + 1][c], vs[j + 1][c]))])

\* (concordant - discordant)/(concordant + discordant) over the unordered
\* pairs of index pairs below n, 0 when there is neither
TauOver(orig, comp, n) ==
    LET pairs == {p \in (0..(n - 1)) \X (0..(n - 1)) : p[1] < p[2]}
        o == [p \in pairs |-> PairDistSq(orig, p[1], p[2])] @@ <<>>
        c == [p \in pairs |-> PairDistSq(comp, p[1], p[2])] @@ <<>>
        \* each unordered pair {p, q} once, as <<p, q>> with p before q
        twos == {t \in pairs \X pairs :
                    t[1][1] < t[2][1] \/ (t[1][1] = t[2][1] /\ t[1][2] < t[2][2])}
        same(t) == \/ Lt(o[t[1]], o[t[2]]) /\ Lt(c[t[1]], c[t[2]])
                   \/ Lt(o[t[2]], o[t[1]]) /\ Lt(c[t[2]], c[t[1]])
        opposite(t) == \/ Lt(o[t[1]], o[t[2]]) /\ Lt(c[t[2]], c[t[1]])
                       \/ Lt(o[t[2]], o[t[1]]) /\ Lt(c[t[1]], c[t[2]])
        concordant == Cardinality({t \in twos : same(t)})
        discordant == Cardinality({t \in twos : opposite(t)})
    IN  IF concordant + discordant = 0 THEN Num(0)
        ELSE Frac(concordant - discordant, concordant + discordant)

\* C25: calculateKendallTau(orig, comp, sampleSize) is (concordant -
\* discordant)/(concordant + discordant) over the pairs of index pairs among
\* the first min(|orig|, sampleSize) indices, lies in [-1, 1], and is 0 when
\* no pair of pairs is strictly ordered in both sets; the kendallTau of
\* calculateMetrics is that value for sampleSize 40.
C25_KendallTau ==
    /\ ret.op = "calculateKendallTau" =>
          /\ ret.value = TauOver(vectors[1], ret.compressed[1],
                                 Min2(Len(vectors[1]), ret.sampleSize))
          /\ Ge(ret.value, Num(-1)) /\ Le(ret.value, Num(1))
          /\ Min2(Len(vectors[1]), ret.sampleSize) < 3 => ret.value = Num(0)
    /\ ret.op = "calculateMetrics" /\ HasOriginal /\ ret.compressed # None =>
          ret.value.kendallTau
              = TauOver(vectors[1], ret.compressed[1], Min2(Len(vectors[1]), 40))

\* a correlation over a proper prefix of the original set, with concordant
\* and discordant pairs both present
C25_Witness ==
    /\ ret.op = "calculateKendallTau"
    /\ ret.sampleSize >= 3 /\ ret.sampleSize < Len(vectors[1])
    /\ Gt(ret.value, Num(-1)) /\ Lt(ret.value, Num(1))
    /\ ret.value # Num(0)

-----------------------------------------------------------------------------
(* the per-dimension errors *)

RECURSIVE LargestOf(_)
LargestOf(s) ==
    IF Len(s) = 1 THEN s[1]
    ELSE LET rest == LargestOf(SubSeq(s, 2, Len(s)))
         IN  IF Lt(rest, s[1]) THEN s[1] ELSE rest

\* C26: in every bundle calculateMetrics returns for a non-empty original
\* set, perDimensionMSE has one non-negative entry per coordinate of
\* original[0], and dimensionCollapseRatio is max(perDimensionMSE) /
\* mean(perDimensionMSE) when the mean is > 0 and 1 otherwise, hence between
\* 1 and the number of dimensions.
C26_DimensionCollapseRatio ==
    ret.op = "calculateMetrics" /\ HasOriginal /\ ret.compressed # None =>
        LET m == ret.value
            dim == Len(vectors[1][1])
            mean == Div(SumSeq(m.perDimensionMSE), Num(dim))
        IN  /\ Len(m.perDimensionMSE) = dim
            /\ \A d \in 1..dim : Ge(m.perDimensionMSE[d], Num(0))
            /\ m.dimensionCollapseRatio
                  = IF Gt(mean, Num(0)) THEN Div(LargestOf(m.perDimensionMSE), mean)
                    ELSE Num(1)
            /\ Ge(m.dimensionCollapseRatio, Num(1))
            /\ Le(m.dimensionCollapseRatio, Num(dim))

-----------------------------------------------------------------------------
(* the parameter k *)

-----------------------------------------------------------------------------
(* a compression that changes nothing *)

\* the call compares a set of pairwise distinct vectors with itself
LosslessCall ==
    /\ HasOriginal
    /\ ret.compressed = vectors
    /\ \A i, j \in 1..Len(vectors[1]) : i # j => vectors[1][i] # vectors[1][j]

\* C28: for every non-empty set of pairwise distinct vectors, of any size,
\* compared with itself, calculateMetrics returns recall5 = 1, recall10 = 1,
\* precision10 = 1, kVariance = 0, centroidSurvivalRatio = 1 and
\* collapseIndex = 0, and the regime is STABLE.
C28_LosslessIsPerfect ==
    /\ ret.op = "calculateMetrics" /\ LosslessCall =>
          /\ ret.value.recall5 = Num(1)
          /\ ret.value.recall10 = Num(1)
          /\ ret.value.precision10 = Num(1)
          /\ ret.value.kVariance = Num(0)
          /\ ret.value.centroidSurvivalRatio = Num(1)
          /\ ret.value.collapseIndex = Num(0)
    /\ ret.op = "classify" /\ LosslessCall => ret.value = "STABLE"

-----------------------------------------------------------------------------
(* the distortion of the boundary-aware quantizer *)

DistSq(a, b) ==
    SumSeq([c \in 1..Len(a) |-> Mul(Sub(a[c], b[c]), Sub(a[c], b[c]))])

\* |x|
Magnitude(x) == IF Lt(x, Num(0)) THEN Neg(x) ELSE x

\* the distance from v to its coarse image exceeds the margin
FineGridUsed(v, coarse, margin) ==
    \/ Lt(margin, Num(0))
    \/ Gt(DistSq(v, coarse), Mul(margin, margin))

\* C29: for every vector v, baseStep > 0 and boundaryMargin, the
\* boundary-aware image of v is no farther from v than lattice(v, baseStep),
\* and when the fine grid is used every coordinate of the image is within
\* baseStep / 4 of the coordinate of v.
C29_NoWorseThanLattice ==
    ret.op \in {"boundaryAware", "boundaryAwareAgain"} /\ Gt(options.gridStep, Num(0)) =>
        LET lattice == latticeQuantization(ret.input, options.gridStep)
        IN  \A j \in 1..Len(ret.input) :
                /\ Le(DistSq(ret.input[j], ret.value[j]), DistSq(ret.input[j], lattice[j]))
                /\ FineGridUsed(ret.input[j], lattice[j], options.boundaryMargin) =>
                      \A c \in 1..Len(ret.input[j]) :
                          Le(Magnitude(Sub(ret.value[j][c], ret.input[j][c])),
                             Div(options.gridStep, Num(4)))

\* a vector sent to the fine grid, whose image is strictly nearer than its
\* lattice image and has a coordinate exactly baseStep / 4 away
C29_Witness ==
    /\ ret.op = "boundaryAware" /\ Gt(options.gridStep, Num(0))
    /\ \E j \in 1..Len(ret.input) :
          LET coarse == latticeQuantization(ret.input, options.gridStep)[j]
          IN  /\ FineGridUsed(ret.input[j], coarse, options.boundaryMargin)
              /\ Lt(DistSq(ret.input[j], ret.value[j]), DistSq(ret.input[j], coarse))
              /\ \E c \in 1..Len(ret.input[j]) :
                    Magnitude(Sub(ret.value[j][c], ret.input[j][c]))
                        = Div(options.gridStep, Num(4))

-----------------------------------------------------------------------------
(* safeCompress: the retry loop *)

FailedRegimes == {"COLLAPSE", "POST_COLLAPSE"}

\* the runs made so far: at most maxAttempts + 1; attempt j at gridStep
\* 0.2 / 2^j with half of it as margin; every run but the last one failed;
\* a frame that has not returned has only failed runs; a result returned
\* from an attempt is in a safe regime, the regime of that attempt
AttemptsInOrder ==
    /\ Len(ret.runs) <= ret.maxAttempts + 1
    /\ \A j \in 0..(Min2(Len(ret.runs), ret.maxAttempts) - 1) :
          /\ ret.runs[j + 1].gridStep = Frac(2, 10 * 2^j)
          /\ ret.runs[j + 1].boundaryMargin = Frac(1, 10 * 2^j)
    /\ \A j \in 1..(Len(ret.runs) - 1) : ret.runs[j].regime \in FailedRegimes
    /\ ret.op # "return" =>
          /\ Len(ret.runs) = ret.attempt
          /\ \A j \in 1..Len(ret.runs) : ret.runs[j].regime \in FailedRegimes
    /\ ret.op = "return" /\ Len(ret.runs) <= ret.maxAttempts =>
          /\ ret.value.regime \in {"STABLE", "PRE_COLLAPSE"}
          /\ ret.value.regime = ret.runs[Len(ret.runs)].regime

\* a result returned from an attempt reports that attempt's gridStep
ReportsItsStep ==
    ret.op = "return" /\ Len(ret.runs) <= ret.maxAttempts =>
        ret.value.gridStep = Some(Frac(2, 10 * 2^(Len(ret.runs) - 1)))

\* ... as long as there is something to compress; for an empty or missing
\* set the first attempt is returned and reports no gridStep
ReportsItsStepUnlessEmpty ==
    ret.op = "return" /\ Len(ret.runs) <= ret.maxAttempts =>
        IF HasOriginal
        THEN ret.value.gridStep = Some(Frac(2, 10 * 2^(Len(ret.runs) - 1)))
        ELSE Len(ret.runs) = 1 /\ ret.value.gridStep = None

\* C30 as stated: safeCompress(vectors, m) returns after at most m + 1
\* pipeline runs; attempt j = 0, 1, ..., m - 1 uses gridStep 0.2 / 2^j and
\* boundaryMargin half of it; an attempt is made only if every earlier one
\* ended in COLLAPSE or POST_COLLAPSE; the first attempt that is STABLE or
\* PRE_COLLAPSE is returned at once, and the gridStep it reports is the
\* coarsest step tried that reached a safe regime.
C30_AsStated == [](AttemptsInOrder /\ ReportsItsStep) /\ <>(ret.op = "return")

\* C30: the same, the reported gridStep being that of the returned attempt
\* for a set with at least one vector, and absent for an empty or missing set.
C30_RetryLoop == [](AttemptsInOrder /\ ReportsItsStepUnlessEmpty) /\ <>(ret.op = "return")

\* a result returned from a later attempt, after a coarser one failed
C30_Witness ==
    /\ ret.op = "return"
    /\ Len(ret.runs) >= 2 /\ Len(ret.runs) <= ret.maxAttempts
    /\ ret.value.regime = "PRE_COLLAPSE"

====
